---- MODULE Spec2Model ----
(***************************************************************************)
(* The field_prompts reconciliation pipeline of src/main.py                *)
(* (preview_ingestion, ingest_excel_data) together with the editing        *)
(* surface's update_prompt of src/quantpy_feed/twitter_feed_bot.py, over a *)
(* PostgreSQL table at READ COMMITTED isolation.                           *)
(*                                                                         *)
(* A string is a sequence of one-character strings.  A spreadsheet cell is *)
(* a record [t, v]: t = "nan" for a missing cell, "str" for a text cell    *)
(* and "num" for a numeric cell (v then holds what str() renders).         *)
(***************************************************************************)
EXTENDS Integers, Sequences, FiniteSets, TLC

VARIABLES
    files,     \* files[r]: the spreadsheet read by process r (pd.read_excel)
    db,        \* committed rows of field_prompts
    seq,       \* next value of the SERIAL sequence behind field_prompts.id
    now,       \* the storage clock (CURRENT_TIMESTAMP of the latest transaction)
    run,       \* run[r]: the locals of ingest_excel_data in process r
    pv,        \* pv[r]: what the preview_ingestion call of process r reported
    faults,    \* storage faults injected so far
    updates,   \* update_prompt calls made so far
    schema,    \* committed schema objects (the table and its indexes)
    mn         \* the locals of main() in process 1, and what it has done

vars == <<files, db, seq, now, run, pv, faults, updates, schema, mn>>

Runs == {1, 2}

\* ---------------------------------------------------------------- bounds
MaxRows == 2
MaxFaults == 1
MaxUpdates == 1

\* ---------------------------------------------------------------- cells
NaN == [t |-> "nan", v |-> <<>>]
Str(s) == [t |-> "str", v |-> s]
Num(s) == [t |-> "num", v |-> s]

isna(c) == c.t = "nan"
notna(c) == ~isna(c)

RECURSIVE lstrip(_)
lstrip(s) ==
    IF s = <<>> THEN s
    ELSE IF Head(s) = " " THEN lstrip(Tail(s)) ELSE s

RECURSIVE rstrip(_)
rstrip(s) ==
    IF s = <<>> THEN s
    ELSE IF s[Len(s)] = " " THEN rstrip(SubSeq(s, 1, Len(s) - 1)) ELSE s

\* str.strip(): leading and trailing whitespace removed
strip(s) == rstrip(lstrip(s))

\* only str has .strip(); on a numeric cell the call raises AttributeError
has_strip(c) == c.t = "str"

\* ------------------------------------------------------------ normalizer
expected_columns == {"Area", "Sub Area", "Field", "Prompt"}

\* a header check that lets every header through
columns_any(f) == TRUE

\* all(col in df.columns for col in expected_columns)
columns_ok(f) == \A col \in expected_columns : col \in f.cols

RawKey(row) == <<row.Area, row.SubArea, row.Field>>

\* a filter that lets every raw row through
dropna_none(rows) == rows

\* df.dropna(subset=['Area', 'Sub Area', 'Field'])
KeysPresent(row) == notna(row.Area) /\ notna(row.SubArea) /\ notna(row.Field)
dropna(rows) == SelectSeq(rows, KeysPresent)

\* df.fillna('')
fillna(rows) ==
    [i \in 1..Len(rows) |->
        IF isna(rows[i].Prompt) THEN [rows[i] EXCEPT !.Prompt = Str(<<>>)]
        ELSE rows[i]]

\* the positions drop_duplicates(keep='last') keeps: those with no later row
\* holding the same key cells (compared as loaded, before any strip)
KeptLast(rows) ==
    {i \in 1..Len(rows) :
        \A j \in (i + 1)..Len(rows) : RawKey(rows[j]) # RawKey(rows[i])}

RECURSIVE TakeRows(_, _, _)
TakeRows(rows, keep, i) ==
    IF i > Len(rows) THEN <<>>
    ELSE IF i \in keep THEN <<rows[i]>> \o TakeRows(rows, keep, i + 1)
    ELSE TakeRows(rows, keep, i + 1)

drop_duplicates(rows) == TakeRows(rows, KeptLast(rows), 1)

\* lines 128-130 of ingest_excel_data
ingest_df(rows) == drop_duplicates(fillna(dropna(rows)))

\* a preview that forgets drop_duplicates
preview_df_all(rows) == dropna(rows)

\* lines 70-71 of preview_ingestion
preview_df(rows) == drop_duplicates(dropna(rows))

\* the parameters both SELECT and INSERT bind for a row
row_key(row) == <<strip(row.Area.v), strip(row.SubArea.v), strip(row.Field.v)>>

row_strippable(row) ==
    has_strip(row.Area) /\ has_strip(row.SubArea) /\ has_strip(row.Field)

\* str(row['Prompt']).strip() if pd.notna(row['Prompt']) else ''
prompt_value(c) == IF notna(c) THEN strip(c.v) ELSE <<>>

\* --------------------------------------------------------------- storage
KeyOf(x) == <<x.area, x.sub_area, x.field>>

\* a constraint that also spans prompt: UNIQUE(area, sub_area, field, prompt)
UniqueWithPrompt(rows, x) ==
    \E y \in rows : KeyOf(y) = KeyOf(x) /\ y.prompt = x.prompt

\* UNIQUE(area, sub_area, field)
UniqueViolation(rows, x) == \E y \in rows : KeyOf(y) = KeyOf(x)

\* insert-or-replace: ON CONFLICT (...) DO UPDATE SET prompt = EXCLUDED.prompt,
\* updated_at = EXCLUDED.updated_at
OnConflictReplace(old, new) ==
    [old EXCEPT !.prompt = new.prompt, !.updated_at = new.updated_at]

\* ON CONFLICT (area, sub_area, field) DO NOTHING
OnConflict(old, new) == old

\* writes that never reach the table
OverlayLost(rows, writes) == rows

\* a transaction's writes laid over a set of rows (by id)
Overlay(rows, writes) ==
    {x \in rows : \A y \in writes : y.id # x.id} \cup writes

\* what the statements of run r see: committed rows and its own writes
Visible(r) == Overlay(db, run[r].pend)

\* SELECT id FROM field_prompts WHERE area = %s AND sub_area = %s AND field = %s
select_id(rows, k) == {x.id : x \in {y \in rows : KeyOf(y) = k}}

\* ---------------------------------------------------------------- inputs
a == <<"a">>
b == <<"b">>

Row(ar, sa, fi, pr) == [Area |-> ar, SubArea |-> sa, Field |-> fi, Prompt |-> pr]

RowA == Row(Str(a), Str(<<"s">>), Str(<<"f">>), Str(<<"p">>))
RowAPad == Row(Str(<<"a", " ">>), Str(<<"s">>), Str(<<"f">>), Str(<<"q", " ">>))
RowB == Row(Str(b), Str(<<"s">>), Str(<<"f">>), Str(<<"p">>))
RowNoArea == Row(NaN, Str(<<"s">>), Str(<<"f">>), Str(<<"p">>))
RowBlank == Row(Str(<<" ">>), Str(<<"s">>), Str(<<"f">>), Str(<<"p">>))
RowNum == Row(Num(<<"5">>), Str(<<"s">>), Str(<<"f">>), Str(<<"p">>))
RowNoPrompt == Row(Str(a), Str(<<"s">>), Str(<<"f">>), NaN)

RawRows == {RowA, RowAPad, RowB, RowNoArea, RowBlank, RowNum, RowNoPrompt}

SeqsUpTo(S, n) == UNION {[1..k -> S] : k \in 0..n}

File(cols, rows) == [cols |-> cols, rows |-> rows]

\* spreadsheets whose header is not the expected one
OddFiles ==
    {File(expected_columns \ {"Prompt"}, <<RowA>>),
     File(expected_columns \cup {"Notes"}, <<RowA>>)}

\* the spreadsheets a single process is fed
AllFiles == {File(expected_columns, rows) : rows \in SeqsUpTo(RawRows, MaxRows)} \cup OddFiles

\* the spreadsheets two concurrent processes are fed
ConcFiles ==
    <<File(expected_columns, <<RowA, RowB>>),
      File(expected_columns, <<RowB, RowA>>),
      File(expected_columns, <<RowAPad, RowA>>),
      File(expected_columns, <<RowNum, RowA>>)>>

NewPrompts == {<<"e">>}

RowC == Row(Str(<<"c">>), Str(<<"s">>), Str(<<"f">>), Str(<<"p">>))

\* two processes whose batches share the keys a and b and meet them in
\* opposite orders, one of them after a key of its own; and a batch with a
\* numeric cell
RaceFiles ==
    {[r \in Runs |-> IF r = 1 THEN f ELSE File(expected_columns, <<RowB, RowA>>)] :
       f \in {File(expected_columns, <<RowC, RowA, RowB>>),
              File(expected_columns, <<RowNum, RowA>>)}}

\* raw rows with one key cell missing each, whatever the prompt cell holds
RowNoSubArea == Row(Str(a), NaN, Str(<<"f">>), Str(<<"p">>))
RowNoField == Row(Str(a), Str(<<"s">>), NaN, NaN)

KeyRows == {RowA, RowNoPrompt, RowNoArea, RowNoSubArea, RowNoField, RowNum}

\* spreadsheets with incomplete rows among complete ones
KeyFiles == {File(expected_columns, rows) : rows \in SeqsUpTo(KeyRows, MaxRows)}

\* ------------------------------------------------------------------ state
InitRun ==
    [pc |-> "idle", ret |-> "none", df |-> <<>>, idx |-> 0,
     existing_record |-> FALSE,
     success_count |-> 0, error_count |-> 0, skipped_count |-> 0, new_count |-> 0,
     conns |-> <<>>, pend |-> {}, txTime |-> 0,
     outcome |-> <<>>, startDb |-> {}, endDb |-> {}]

InitPv == [ret |-> "none", new_count |-> 0, existing_count |-> 0,
           fault |-> FALSE, db |-> {}, busy |-> FALSE]

\* the objects create_schema creates, in the order of its statements
DDL == <<"field_prompts", "idx_field_prompts_area_subarea",
         "idx_field_prompts_field", "idx_field_prompts_updated_at">>

Objects(k) == {DDL[i] : i \in 1..k}

NoStats == [total_records |-> 0, unique_areas |-> 0,
            unique_sub_areas |-> 0, recent_updates |-> 0]

\* main() at its first line (Spec and SpecSolo follow processes that are
\* past create_schema; they leave mn as it is)
InitMain ==
    [pc |-> "create_schema", step |-> 1, ddl |-> {}, schema0 |-> {},
     schema_ret |-> "none",
     stats |-> NoStats, stats_ret |-> "none", seen |-> {},
     preview_success |-> "none", proceed |-> "none"]

InitCommon ==
    /\ schema = Objects(Len(DDL))
    /\ mn = InitMain
    /\ db = {}
    /\ seq = 1
    /\ now = 0
    /\ run = [r \in Runs |-> InitRun]
    /\ pv = [r \in Runs |-> InitPv]
    /\ faults = 0
    /\ updates = <<>>

\* two processes, each with a spreadsheet of its own (the processes run the
\* same code, so one order of each pair of spreadsheets is enough)
Init ==
    /\ files \in {[r \in Runs |-> ConcFiles[p[r]]] :
                    p \in {q \in [Runs -> 1..Len(ConcFiles)] : q[1] <= q[2]}}
    /\ InitCommon

\* main.py reads one fixed path: every process is fed the same spreadsheet
InitSolo == files \in {[r \in Runs |-> f] : f \in AllFiles} /\ InitCommon

InitRace == files \in RaceFiles /\ InitCommon

\* the same, on spreadsheets with incomplete rows
InitKeys == files \in {[r \in Runs |-> f] : f \in KeyFiles} /\ InitCommon

Active(r) == run[r].pc \in {"select", "insert", "commit"}

CurRow(r) == run[r].df[run[r].idx]

\* pc after the loop body has run for record i
AfterRecord(r, i) == IF i >= Len(run[r].df) THEN "commit" ELSE "select"

\* finally: cursor.close(); conn.close()  -- closes what conn names now
CloseCurrent(conns) ==
    IF conns = <<>> THEN conns ELSE [conns EXCEPT ![Len(conns)] = "closed"]

\* ------------------------------------------------------- ingest_excel_data
\* lines 119-146: read the spreadsheet, check its header, normalize, connect
IngestStart(r) ==
    /\ run[r].pc = "idle"
    /\ run' = [run EXCEPT ![r] =
                 IF ~columns_ok(files[r])
                 THEN [@ EXCEPT !.pc = "done", !.ret = "false",
                                !.startDb = db, !.endDb = db]
                 ELSE [@ EXCEPT !.df = ingest_df(files[r].rows),
                                !.idx = 1,
                                !.pc = IF Len(ingest_df(files[r].rows)) = 0
                                       THEN "commit" ELSE "select",
                                !.conns = <<"open">>,
                                !.startDb = db]]
    /\ UNCHANGED <<files, db, seq, now, pv, faults, updates, schema, mn>>

\* line 134 raising: get_db_connection re-raises, the outer handler returns
\* False and the finally block finds no conn to close
IngestConnectFails(r) ==
    /\ run[r].pc = "idle"
    /\ columns_ok(files[r])
    /\ faults < MaxFaults
    /\ faults' = faults + 1
    /\ run' = [run EXCEPT ![r] =
                 [@ EXCEPT !.df = ingest_df(files[r].rows),
                           !.pc = "done", !.ret = "false",
                           !.startDb = db, !.endDb = db]]
    /\ UNCHANGED <<files, db, seq, now, pv, updates, schema, mn>>

\* lines 150-155: the existence SELECT of the current record; the first
\* statement on a connection opens its transaction and fixes CURRENT_TIMESTAMP
IngestSelect(r) ==
    /\ run[r].pc = "select"
    /\ row_strippable(CurRow(r))
    /\ now' = IF run[r].txTime = 0 THEN now + 1 ELSE now
    /\ run' = [run EXCEPT ![r] =
                 [@ EXCEPT !.txTime = IF @ = 0 THEN now + 1 ELSE @,
                           !.existing_record =
                               select_id(Visible(r), row_key(CurRow(r))) # {},
                           !.pc = "insert"]]
    /\ UNCHANGED <<files, db, seq, pv, faults, updates, schema, mn>>

\* the row the INSERT of lines 137-141, 157-162 offers
NewRow(r) ==
    [id |-> seq,
     area |-> row_key(CurRow(r))[1],
     sub_area |-> row_key(CurRow(r))[2],
     field |-> row_key(CurRow(r))[3],
     prompt |-> prompt_value(CurRow(r).Prompt),
     created_at |-> run[r].txTime,
     updated_at |-> run[r].txTime]

\* the INSERT waits while another transaction holds an uncommitted row that
\* would conflict with it
BlockedBy(r, o) ==
    /\ o # r
    /\ run[r].pc = "insert"
    /\ ~UniqueViolation(Visible(r), NewRow(r))
    /\ UniqueViolation(run[o].pend, NewRow(r))

Blocked(r) == \E o \in Runs : BlockedBy(r, o)

\* the writes of run r after its INSERT
InsertWrites(r) ==
    IF UniqueViolation(Visible(r), NewRow(r))
    THEN LET old == CHOOSE x \in Visible(r) : KeyOf(x) = KeyOf(NewRow(r))
             w == OnConflict(old, NewRow(r))
         IN  IF w = old THEN run[r].pend
             ELSE {x \in run[r].pend : x.id # old.id} \cup {w}
    ELSE run[r].pend \cup {NewRow(r)}

\* lines 157-169: the INSERT and the tally of the current record
IngestInsert(r) ==
    /\ run[r].pc = "insert"
    /\ ~Blocked(r)
    /\ seq' = seq + 1
    /\ run' = [run EXCEPT ![r] =
                 [@ EXCEPT !.pend = InsertWrites(r),
                           !.skipped_count = IF run[r].existing_record THEN @ + 1 ELSE @,
                           !.new_count = IF run[r].existing_record THEN @ ELSE @ + 1,
                           !.success_count = @ + 1,
                           !.outcome = Append(@,
                               [kind |-> IF run[r].existing_record THEN "skipped" ELSE "new",
                                created |-> ~UniqueViolation(Visible(r), NewRow(r)),
                                key |-> KeyOf(NewRow(r)),
                                at |-> run[r].txTime,
                                cause |-> "none"]),
                           !.idx = @ + 1,
                           !.pc = AfterRecord(r, run[r].idx)]]
    /\ UNCHANGED <<files, db, now, pv, faults, updates, schema, mn>>

\* lines 171-176: the handler of the loop body.  error_count is bumped, the
\* transaction is rolled back (every uncommitted write of the run goes), and
\* conn is rebound to a new connection; the old one is not closed.  When
\* rollback or get_db_connection raises in turn ("fails"), the outer handler
\* returns False and the finally block closes what conn names.
Except(r, cause, h) ==
    run' = [run EXCEPT ![r] =
              IF h = "reconnect"
              THEN [@ EXCEPT !.error_count = @ + 1,
                             !.outcome = Append(@,
                                 [kind |-> "failed", created |-> FALSE,
                                  key |-> <<>>, at |-> run[r].txTime,
                                  cause |-> cause]),
                             !.pend = {},
                             !.txTime = 0,
                             !.conns = Append(@, "open"),
                             !.idx = @ + 1,
                             !.pc = AfterRecord(r, run[r].idx)]
              ELSE [@ EXCEPT !.error_count = @ + 1,
                             !.outcome = Append(@,
                                 [kind |-> "failed", created |-> FALSE,
                                  key |-> <<>>, at |-> run[r].txTime,
                                  cause |-> cause]),
                             !.pend = {},
                             !.txTime = 0,
                             !.conns = CloseCurrent(@),
                             !.pc = "done", !.ret = "false",
                             !.endDb = db]]

Handlers == {"reconnect", "fails"}

\* row['Area'].strip() on a numeric cell raises before the SELECT is sent
IngestAttrError(r) ==
    /\ run[r].pc = "select"
    /\ ~row_strippable(CurRow(r))
    /\ \E h \in Handlers :
         /\ h = "fails" => faults < MaxFaults
         /\ faults' = IF h = "fails" THEN faults + 1 ELSE faults
         /\ Except(r, "attr", h)
    /\ UNCHANGED <<files, db, seq, now, pv, updates, schema, mn>>

\* a statement of the loop body fails in storage.  When what failed is the
\* connection itself, conn.rollback() of line 174 raises on it as well
\* ("fails"): one fault, two exceptions.
IngestStorageError(r) ==
    /\ \/ run[r].pc = "select" /\ row_strippable(CurRow(r))
       \/ run[r].pc = "insert"
    /\ faults < MaxFaults
    /\ faults' = faults + 1
    /\ \E h \in Handlers : Except(r, "storage", h)
    /\ UNCHANGED <<files, db, seq, now, pv, updates, schema, mn>>

\* two INSERTs wait for each other: storage aborts one of them
IngestDeadlock(r) ==
    /\ \E o \in Runs : BlockedBy(r, o) /\ BlockedBy(o, r)
    /\ \E h \in Handlers :
         /\ h = "fails" => faults < MaxFaults
         /\ faults' = IF h = "fails" THEN faults + 1 ELSE faults
         /\ Except(r, "deadlock", h)
    /\ UNCHANGED <<files, db, seq, now, pv, updates, schema, mn>>

\* lines 178-181, 186-190: the one commit of the run, then the finally block
IngestCommit(r) ==
    /\ run[r].pc = "commit"
    /\ db' = Overlay(db, run[r].pend)
    /\ run' = [run EXCEPT ![r] =
                 [@ EXCEPT !.pend = {}, !.txTime = 0,
                           !.conns = CloseCurrent(@),
                           !.pc = "done", !.ret = "true",
                           !.endDb = Overlay(db, run[r].pend)]]
    /\ UNCHANGED <<files, seq, now, pv, faults, updates, schema, mn>>

\* line 178 raising: nothing of the open transaction is committed
IngestCommitFails(r) ==
    /\ run[r].pc = "commit"
    /\ faults < MaxFaults
    /\ faults' = faults + 1
    /\ run' = [run EXCEPT ![r] =
                 [@ EXCEPT !.pend = {}, !.txTime = 0,
                           !.conns = CloseCurrent(@),
                           !.pc = "done", !.ret = "false",
                           !.endDb = db]]
    /\ UNCHANGED <<files, db, seq, now, pv, updates, schema, mn>>

\* ------------------------------------------------------- preview_ingestion
\* lines 79-88: one SELECT per row of the frame, on a connection of its own
\* (it sees committed rows only); existing_count of the rows found
preview_existing(df, rows) ==
    Cardinality({i \in 1..Len(df) : select_id(rows, row_key(df[i])) # {}})

\* new_count of the rows not found
preview_new(df, rows) ==
    Cardinality({i \in 1..Len(df) : select_id(rows, row_key(df[i])) = {}})

\* some ingest run holds uncommitted rows
Uncommitted == \E o \in Runs : run[o].pend # {}

\* what lines 62-95 report on spreadsheet f over the committed rows, when
\* storage answers every statement.  A wrong header returns False (line 68);
\* .strip() on a numeric key cell raises and the handler returns False.
preview_result(f, rows) ==
    LET df == preview_df(f.rows)
    IN  IF columns_ok(f) /\ \A i \in 1..Len(df) : row_strippable(df[i])
        THEN [ret |-> "true",
              new_count |-> preview_new(df, rows),
              existing_count |-> preview_existing(df, rows),
              fault |-> FALSE, db |-> rows, busy |-> Uncommitted]
        ELSE [ret |-> "false", new_count |-> 0, existing_count |-> 0,
              fault |-> FALSE, db |-> rows, busy |-> Uncommitted]

\* process r previews its spreadsheet before ingesting it (main, lines
\* 243-252).  Nothing is written and nothing is committed.
preview_ingestion(r) ==
    /\ run[r].pc = "idle"
    /\ pv[r].ret = "none"
    /\ pv' = [pv EXCEPT ![r] = preview_result(files[r], db)]
    /\ UNCHANGED <<files, db, seq, now, run, faults, updates, schema, mn>>

\* get_db_connection or a SELECT raising: the handler returns False
PreviewFails(r) ==
    /\ run[r].pc = "idle"
    /\ pv[r].ret = "none"
    /\ columns_ok(files[r])
    /\ faults < MaxFaults
    /\ faults' = faults + 1
    /\ pv' = [pv EXCEPT ![r] =
                [ret |-> "false", new_count |-> 0, existing_count |-> 0,
                 fault |-> TRUE, db |-> db, busy |-> Uncommitted]]
    /\ UNCHANGED <<files, db, seq, now, run, updates, schema, mn>>

\* ----------------------------------------------------------- update_prompt
\* an UPDATE that forgets the timestamp: SET prompt = %s WHERE id = %s
update_rows_nostamp(rows, record_id, new_prompt, ts) ==
    {IF x.id = record_id THEN [x EXCEPT !.prompt = new_prompt] ELSE x : x \in rows}

\* UPDATE field_prompts SET prompt = %s, updated_at = CURRENT_TIMESTAMP
\* WHERE id = %s
update_rows(rows, record_id, new_prompt, ts) ==
    {IF x.id = record_id
     THEN [x EXCEPT !.prompt = new_prompt, !.updated_at = ts]
     ELSE x : x \in rows}

\* the ids an editor can name: those of committed rows, and one no row has
RecordIds == {x.id : x \in db} \cup {seq}

\* lines 79-89, 94-96: the UPDATE and its commit on a connection of its own
update_prompt(record_id, new_prompt) ==
    /\ Len(updates) < MaxUpdates
    /\ now' = now + 1
    /\ db' = update_rows(db, record_id, new_prompt, now + 1)
    /\ updates' = Append(updates,
                    [record_id |-> record_id, new_prompt |-> new_prompt, ret |-> "true"])
    /\ UNCHANGED <<files, seq, run, pv, faults, schema, mn>>

\* lines 90-93: the UPDATE or the commit raising; rollback, return False
UpdatePromptFails(record_id, new_prompt) ==
    /\ Len(updates) < MaxUpdates
    /\ faults < MaxFaults
    /\ faults' = faults + 1
    /\ updates' = Append(updates,
                    [record_id |-> record_id, new_prompt |-> new_prompt, ret |-> "false"])
    /\ UNCHANGED <<files, db, seq, now, run, pv, schema, mn>>

\* ----------------------------------------------------------- create_schema
\* a rollback that keeps what the statements before the failing one created
\* (storage whose DDL is not transactional)
rollback_keeps(committed, ddl) == committed \cup ddl

\* line 53: conn.rollback() undoes the DDL of the open transaction
rollback_schema(committed, ddl) == committed

\* line 21 raising: get_db_connection is called outside the try block, the
\* error leaves create_schema and main
CreateSchemaConnectFails ==
    /\ mn.pc = "create_schema" /\ mn.step = 1
    /\ faults < MaxFaults
    /\ faults' = faults + 1
    /\ mn' = [mn EXCEPT !.pc = "raised", !.schema_ret = "raised"]
    /\ UNCHANGED <<files, db, seq, now, run, pv, updates, schema>>

\* lines 38, 46-47: CREATE TABLE / CREATE INDEX IF NOT EXISTS, in order
CreateSchemaExecute ==
    /\ mn.pc = "create_schema" /\ mn.step \in 1..Len(DDL)
    /\ mn' = [mn EXCEPT !.ddl = IF DDL[mn.step] \in schema THEN @
                                 ELSE @ \cup {DDL[mn.step]},
                         !.step = @ + 1]
    /\ UNCHANGED <<files, db, seq, now, run, pv, faults, updates, schema>>

\* a statement or the commit raising: lines 52-55 roll back and re-raise,
\* line 233 does not catch
CreateSchemaFails ==
    /\ mn.pc = "create_schema" /\ mn.step \in 1..(Len(DDL) + 1)
    /\ faults < MaxFaults
    /\ faults' = faults + 1
    /\ schema' = rollback_schema(schema, mn.ddl)
    /\ mn' = [mn EXCEPT !.ddl = {}, !.pc = "raised", !.schema_ret = "raised"]
    /\ UNCHANGED <<files, db, seq, now, run, pv, updates>>

\* line 49: the commit of the DDL; main goes on to line 236
CreateSchemaCommit ==
    /\ mn.pc = "create_schema" /\ mn.step = Len(DDL) + 1
    /\ schema' = schema \cup mn.ddl
    /\ mn' = [mn EXCEPT !.ddl = {}, !.schema_ret = "ok",
                         !.pc = "stats", !.step = 1]
    /\ UNCHANGED <<files, db, seq, now, run, pv, faults, updates>>

\* ------------------------------------------------------ get_database_stats
\* INTERVAL '7 days' of line 209, in ticks of the storage clock
Days == 7

\* the four aggregates over one set of committed rows, read at time t
StatsOf(rows, t) ==
    [total_records |-> Cardinality(rows),
     unique_areas |-> Cardinality({x.area : x \in rows}),
     unique_sub_areas |-> Cardinality({x.sub_area : x \in rows}),
     recent_updates |-> Cardinality({x \in rows : x.updated_at >= t - Days})]

\* the statements of lines 198, 201, 204, 207 in order
StatField == <<"total_records", "unique_areas", "unique_sub_areas", "recent_updates">>

InStats == mn.pc \in {"stats", "final_stats"}

\* where main goes when the call returns (line 241 or line 261)
AfterStats == IF mn.pc = "stats" THEN "preview" ELSE "returned"

\* one of the four SELECTs: at READ COMMITTED each statement reads the rows
\* committed when it starts
StatsSelect ==
    /\ InStats
    /\ mn' = [mn EXCEPT
                 !.stats = [@ EXCEPT ![StatField[mn.step]] =
                                       StatsOf(db, now)[StatField[mn.step]]],
                 !.seen = @ \cup {db},
                 !.step = IF mn.step = Len(StatField) THEN 1 ELSE @ + 1,
                 !.stats_ret = IF mn.step = Len(StatField) THEN "dict" ELSE @,
                 !.pc = IF mn.step = Len(StatField) THEN AfterStats ELSE @]
    /\ UNCHANGED <<files, db, seq, now, run, pv, faults, updates, schema>>

\* a SELECT raising: lines 220-222 return None, main goes on
StatsFails ==
    /\ InStats
    /\ faults < MaxFaults
    /\ faults' = faults + 1
    /\ mn' = [mn EXCEPT !.stats = NoStats, !.stats_ret = "None",
                         !.step = 1, !.pc = AfterStats]
    /\ UNCHANGED <<files, db, seq, now, run, pv, updates, schema>>

\* line 194 raising: get_db_connection is called outside the try block, the
\* error leaves get_database_stats and main
StatsConnectFails ==
    /\ InStats /\ mn.step = 1
    /\ faults < MaxFaults
    /\ faults' = faults + 1
    /\ mn' = [mn EXCEPT !.pc = "raised"]
    /\ UNCHANGED <<files, db, seq, now, run, pv, updates, schema>>

\* -------------------------------------------------------------------- main
\* line 243: preview_success = preview_ingestion(excel_file); line 245
MainAfterPreview ==
    /\ mn.pc = "preview" /\ pv[1].ret # "none"
    /\ mn' = [mn EXCEPT !.preview_success = pv[1].ret,
                         !.pc = IF pv[1].ret = "true" THEN "ask" ELSE "ingest"]
    /\ UNCHANGED <<files, db, seq, now, run, pv, faults, updates, schema>>

\* lines 246-249: proceed = input(...).strip().lower()
MainAsk ==
    /\ mn.pc = "ask"
    /\ \E proceed \in {"y", "n"} :
         mn' = [mn EXCEPT !.proceed = proceed,
                          !.pc = IF proceed # "y" THEN "returned" ELSE "ingest"]
    /\ UNCHANGED <<files, db, seq, now, run, pv, faults, updates, schema>>

\* lines 252-256: success = ingest_excel_data(excel_file); the final stats
\* are read when it returned True
MainAfterIngest ==
    /\ mn.pc = "ingest" /\ run[1].pc = "done"
    /\ mn' = [mn EXCEPT !.pc = IF run[1].ret = "true" THEN "final_stats"
                                ELSE "returned",
                         !.stats = NoStats, !.stats_ret = "none",
                         !.seen = {}, !.step = 1]
    /\ UNCHANGED <<files, db, seq, now, run, pv, faults, updates, schema>>

\* --------------------------------------------------------- specifications
IngestStep(r) ==
    \/ IngestSelect(r)
    \/ IngestInsert(r)
    \/ IngestAttrError(r)
    \/ IngestStorageError(r)
    \/ IngestCommit(r)
    \/ IngestCommitFails(r)

\* no other run is between its connect and its commit
Alone(r) == \A o \in Runs \ {r} : ~Active(o)

\* concurrent processes and an editor
Next ==
    \/ \E r \in Runs :
         \/ IngestStart(r)
         \/ IngestConnectFails(r)
         \/ IngestStep(r)
         \/ IngestDeadlock(r)
    \/ \E record_id \in RecordIds, new_prompt \in NewPrompts :
         \/ update_prompt(record_id, new_prompt)
         \/ UpdatePromptFails(record_id, new_prompt)

Spec == Init /\ [][Next]_vars

\* processes that preview and then ingest; one ingest run at a time and no
\* other writer
NextSolo ==
    \E r \in Runs :
      \/ Alone(r) /\ IngestStart(r)
      \/ Alone(r) /\ IngestConnectFails(r)
      \/ IngestStep(r)
      \/ preview_ingestion(r)
      \/ PreviewFails(r)

SpecRace == InitRace /\ [][Next]_vars

SpecSolo == InitSolo /\ [][NextSolo]_vars

SpecKeys == InitKeys /\ [][NextSolo]_vars

\* the spreadsheet main() reads in process 1, and the spreadsheet of a
\* process 2 that is past its own create_schema and preview
MainFiles ==
    {[r \in Runs |-> IF r = 1 THEN f ELSE File(expected_columns, <<RowB, RowA>>)] :
       f \in {File(expected_columns, <<RowA, RowB>>),
              File(expected_columns, <<RowNum, RowA>>)}}

\* main() on a storage with no schema yet, or with the schema of an earlier
\* invocation
InitMainRun ==
    /\ files \in MainFiles
    /\ schema \in {{}, Objects(Len(DDL))}
    /\ mn = [InitMain EXCEPT !.schema0 = schema]
    /\ db = {}
    /\ seq = 1
    /\ now = 0
    /\ run = [r \in Runs |-> InitRun]
    /\ pv = [r \in Runs |-> InitPv]
    /\ faults = 0
    /\ updates = <<>>

\* process 1 runs main(); process 2 ingests once the table exists
NextMain ==
    \/ CreateSchemaConnectFails
    \/ CreateSchemaExecute
    \/ CreateSchemaFails
    \/ CreateSchemaCommit
    \/ StatsSelect
    \/ StatsFails
    \/ StatsConnectFails
    \/ mn.pc = "preview" /\ preview_ingestion(1)
    \/ mn.pc = "preview" /\ PreviewFails(1)
    \/ MainAfterPreview
    \/ MainAsk
    \/ mn.pc = "ingest" /\ IngestStart(1)
    \/ mn.pc = "ingest" /\ IngestConnectFails(1)
    \/ MainAfterIngest
    \/ DDL[1] \in schema /\ IngestStart(2)
    \/ DDL[1] \in schema /\ IngestConnectFails(2)
    \/ \E r \in Runs :
         \/ IngestStep(r)
         \/ IngestDeadlock(r)

SpecMain == InitMainRun /\ [][NextMain]_vars

\* ------------------------------------------------------------ vocabulary
Done(r) == run[r].pc = "done"

\* the run reached line 180 and printed its summary
Reported(r) == Done(r) /\ run[r].ret = "true"

Keys(rows) == {KeyOf(x) : x \in rows}

Failed(r) == {i \in DOMAIN run[r].outcome : run[r].outcome[i].kind = "failed"}

\* every failure of the run was a storage error
OnlyStorageErrors(r) ==
    \A i \in Failed(r) : run[r].outcome[i].cause = "storage"

Tally(r) == run[r].new_count + run[r].skipped_count + run[r].error_count

\* ------------------------------------------------------------------ C1
\* C1 (failure isolation): when exactly one record of a run raised a storage
\* error, the run reports inserted + skipped_existing + failed = N with
\* failed = 1, and after its commit the key of every other record of the
\* batch is in storage.
C1_FailureIsolation ==
    \A r \in Runs :
      (Reported(r) /\ Cardinality(Failed(r)) = 1 /\ OnlyStorageErrors(r))
      => /\ Tally(r) = Len(run[r].df)
         /\ run[r].error_count = 1
         /\ \A i \in DOMAIN run[r].df :
              i \notin Failed(r) => row_key(run[r].df[i]) \in Keys(run[r].endDb)

\* ------------------------------------------------------------------ C6
\* C6 (accurate tally): a run that completes with no concurrent writer,
\* whatever storage errors its records met, reports as inserted the number
\* of rows that are in storage after it and were not before it, and
\* inserted + skipped_existing + failed is the number of normalized records.
C6_AccurateTally ==
    \A r \in Runs :
      (Reported(r) /\ OnlyStorageErrors(r))
      => /\ run[r].new_count =
              Cardinality(Keys(run[r].endDb) \ Keys(run[r].startDb))
         /\ Tally(r) = Len(run[r].df)

\* ------------------------------------------------------------------ C10
\* C10 (scoped connection release): when a run has returned, on whatever
\* path, every connection it opened is closed.
C10_ConnectionsReleased ==
    \A r \in Runs :
      Done(r) => \A c \in DOMAIN run[r].conns : run[r].conns[c] = "closed"

\* ------------------------------------------------------------------ C2
\* the records of the run are well formed: text keys, pairwise distinct
\* after trimming
WellFormed(r) ==
    /\ \A i \in DOMAIN run[r].df : row_strippable(run[r].df[i])
    /\ \A i, j \in DOMAIN run[r].df :
         row_key(run[r].df[i]) = row_key(run[r].df[j]) => i = j

DfKeys(r) == {row_key(run[r].df[i]) : i \in DOMAIN run[r].df}

\* run r2 ingested the same input right after run r1, none of whose keys
\* was stored before; neither met an error
TwiceInARow(r1, r2) ==
    /\ r1 # r2
    /\ Reported(r1) /\ Reported(r2)
    /\ run[r1].error_count = 0 /\ run[r2].error_count = 0
    /\ files[r1] = files[r2]
    /\ WellFormed(r1)
    /\ DfKeys(r1) \cap Keys(run[r1].startDb) = {}
    /\ run[r2].startDb = run[r1].endDb

\* C2 (idempotence): the first run on N well-formed records with distinct
\* keys, none stored, reports inserted = N, skipped_existing = 0, failed = 0;
\* a second run on the same input reports inserted = 0, skipped_existing = N,
\* failed = 0 and leaves the table as the first run left it.
C2_Idempotence ==
    \A r1, r2 \in Runs :
      TwiceInARow(r1, r2)
      => /\ run[r1].new_count = Len(run[r1].df)
         /\ run[r1].skipped_count = 0
         /\ run[r1].error_count = 0
         /\ run[r2].new_count = 0
         /\ run[r2].skipped_count = Len(run[r1].df)
         /\ run[r2].error_count = 0
         /\ run[r2].endDb = run[r1].endDb

C2_Witness ==
    \E r1, r2 \in Runs :
      /\ TwiceInARow(r1, r2)
      /\ Len(run[r1].df) = MaxRows
      /\ Cardinality(run[r2].endDb) = MaxRows

\* ------------------------------------------------------------------ C4
\* the raw rows of a spreadsheet that have all three key cells
CompleteRows(r) == dropna(files[r].rows)

\* the prompt of the last complete raw row whose trimmed key is k
LastPrompt(r, k) ==
    LET cr == CompleteRows(r)
        last == CHOOSE i \in DOMAIN cr :
                  /\ row_key(cr[i]) = k
                  /\ \A j \in DOMAIN cr : row_key(cr[j]) = k => j <= i
    IN  prompt_value(cr[last].Prompt)

Normalized(r) == run[r].pc # "idle" /\ columns_ok(files[r])

\* C4 (last-wins deduplication): for every trimmed key of a complete raw
\* row, the normalized set holds exactly one record with that key, carrying
\* the trimmed prompt of the last raw row with that key; ingesting the batch
\* into an empty table stores that prompt for the key.
C4_LastWins ==
    \A r \in Runs :
      Normalized(r) =>
        \A k \in {row_key(CompleteRows(r)[i]) : i \in DOMAIN CompleteRows(r)} :
          /\ Cardinality({j \in DOMAIN run[r].df : row_key(run[r].df[j]) = k}) = 1
          /\ \A j \in DOMAIN run[r].df :
               row_key(run[r].df[j]) = k =>
                 prompt_value(run[r].df[j].Prompt) = LastPrompt(r, k)
          /\ (Reported(r) /\ run[r].startDb = {} /\ run[r].error_count = 0)
               => \E x \in run[r].endDb :
                    KeyOf(x) = k /\ x.prompt = LastPrompt(r, k)

\* ------------------------------------------------------------------ C5
\* C5 (preview/ingest agreement): when storage did not change between a
\* preview and the ingest run of the same input, and no error occurred, the
\* preview's new count is the run's inserted count and its existing count is
\* the run's skipped_existing count.
C5_PreviewAgrees ==
    \A r \in Runs :
      (/\ Reported(r) /\ run[r].error_count = 0
       /\ pv[r].ret = "true"
       /\ pv[r].db = run[r].startDb)
      => /\ pv[r].new_count = run[r].new_count
         /\ pv[r].existing_count = run[r].skipped_count

\* ------------------------------------------------------------------ C9
\* what a successful preview reported adds up to the normalized records of
\* the spreadsheet, and an empty normalized set is reported as 0 new,
\* 0 existing, successfully
PreviewCounts ==
    \A r \in Runs :
      /\ pv[r].ret = "true" =>
           pv[r].new_count + pv[r].existing_count = Len(ingest_df(files[r].rows))
      /\ (/\ pv[r].ret # "none" /\ ~pv[r].fault
          /\ columns_ok(files[r]) /\ ingest_df(files[r].rows) = <<>>)
           => /\ pv[r].ret = "true"
              /\ pv[r].new_count = 0
              /\ pv[r].existing_count = 0

\* C9 (preview is read-only): a preview_ingestion call leaves the committed
\* rows, the sequence and every ingest run (its uncommitted rows and its
\* position) as they were; its new + existing counts sum to the number of
\* normalized records; an empty input is reported as 0/0, successfully.
C9_PreviewReadOnly ==
    /\ []PreviewCounts
    /\ [][\A r \in Runs :
            pv'[r] # pv[r] => /\ db' = db
                              /\ seq' = seq
                              /\ run' = run]_vars

\* a preview taken while an ingest run held uncommitted rows, which then
\* committed
C9_Witness ==
    \E r, o \in Runs :
      /\ pv[r].ret = "true" /\ pv[r].busy
      /\ pv[r].new_count + pv[r].existing_count = MaxRows
      /\ Reported(o) /\ run[o].new_count > 0 /\ run[o].endDb # {}

\* ------------------------------------------------------------------ C3
\* any step of ingest_excel_data in process r
IngestAny(r) ==
    \/ IngestStart(r)
    \/ IngestConnectFails(r)
    \/ IngestStep(r)
    \/ IngestDeadlock(r)

\* C3 (insert-or-ignore): no step of an ingest run changes or removes a
\* committed row (its id, key, prompt, created_at and updated_at stay), and
\* the INSERT of a record whose key the run already sees leaves that row as
\* it is; so a prompt written by update_prompt survives re-ingestion.
C3_InsertOrIgnore ==
    [][\A r \in Runs :
         IngestAny(r) =>
           /\ \A x \in db : x \in db'
           /\ IngestInsert(r) =>
                \A x \in Visible(r) :
                  KeyOf(x) = KeyOf(NewRow(r)) => x \in Visible(r)']_vars

\* a row edited by update_prompt, still carrying the edit after a later run
\* applied a record with its key
C3_Witness ==
    \E r \in Runs : \E x \in db : \E i \in DOMAIN run[r].outcome :
      /\ Reported(r)
      /\ x.prompt \in NewPrompts
      /\ run[r].outcome[i].kind = "skipped"
      /\ run[r].outcome[i].key = KeyOf(x)
      /\ run[r].outcome[i].at > x.updated_at

\* ------------------------------------------------------------------ C7
\* C7 (concurrent first-time insert race): when two runs both apply a record
\* whose key is not committed, and nothing else goes wrong, one row is
\* created for the key, a record whose INSERT created no row is counted as
\* skipped_existing (not as inserted), and neither run aborts.
C7_RaceCountedSkipped ==
    (/\ faults = 0 /\ updates = <<>>
     /\ \A r \in Runs : \A i \in Failed(r) : run[r].outcome[i].cause = "deadlock") =>
      /\ \A x, y \in db : KeyOf(x) = KeyOf(y) => x = y
      /\ \A r \in Runs : Done(r) => run[r].ret = "true"
      /\ \A r \in Runs : \A i \in DOMAIN run[r].outcome :
           (run[r].outcome[i].kind # "failed" /\ ~run[r].outcome[i].created)
             => run[r].outcome[i].kind = "skipped"

\* ------------------------------------------------------------------ C8
\* C8 (key uniqueness): in every reachable state, committed storage and the
\* rows any run sees hold at most one row per (area, sub_area, field).
C8_KeyUnique ==
    /\ \A x, y \in db : KeyOf(x) = KeyOf(y) => x = y
    /\ \A r \in Runs : \A x, y \in Visible(r) : KeyOf(x) = KeyOf(y) => x = y

\* both runs applied a record with the same key, one of them after a
\* rollback and reconnect, an edit was made, and the key is stored once
C8_Witness ==
    \E r, o \in Runs : \E i \in DOMAIN run[r].outcome, j \in DOMAIN run[o].outcome :
      /\ r # o /\ Reported(r) /\ Reported(o)
      /\ run[r].outcome[i].kind # "failed"
      /\ run[r].outcome[i].key = run[o].outcome[j].key
      /\ run[r].error_count > 0
      /\ updates # <<>>
      /\ run[r].outcome[i].key \in Keys(db)

\* ------------------------------------------------------------------ C11
\* the raw rows of the spreadsheet of process r
RawOf(r) == files[r].rows

\* the number of raw rows with all three key cells
NComplete(r) == Cardinality({j \in DOMAIN RawOf(r) : KeysPresent(RawOf(r)[j])})

\* raw row j has its three keys, no prompt, and no later row with its keys
KeptNoPrompt(r, j) ==
    /\ KeysPresent(RawOf(r)[j])
    /\ isna(RawOf(r)[j].Prompt)
    /\ \A k \in DOMAIN RawOf(r) :
         k > j => RawKey(RawOf(r)[k]) # RawKey(RawOf(r)[j])

\* C11 (key-completeness filter): a raw row with a missing area, sub_area or
\* field is never a record of a run, never counted by the preview or by the
\* run (the counts stay within the number of complete raw rows) and never
\* stored; a complete raw row with a missing prompt is a record of the run,
\* its prompt is the empty string, and that is what its INSERT stores
\* (unless the transaction of the run is rolled back).
C11_KeyCompleteness ==
    \A r \in Runs :
      /\ Normalized(r) =>
           /\ \A i \in DOMAIN run[r].df :
                \E j \in DOMAIN RawOf(r) :
                  /\ KeysPresent(RawOf(r)[j])
                  /\ RawKey(RawOf(r)[j]) = RawKey(run[r].df[i])
           /\ Len(run[r].df) <= NComplete(r)
           /\ Tally(r) <= NComplete(r)
           /\ \A j \in DOMAIN RawOf(r) :
                KeptNoPrompt(r, j) =>
                  \E i \in DOMAIN run[r].df :
                    /\ RawKey(run[r].df[i]) = RawKey(RawOf(r)[j])
                    /\ prompt_value(run[r].df[i].Prompt) = <<>>
                    /\ (/\ i \in DOMAIN run[r].outcome /\ run[r].outcome[i].created
                        /\ run[r].error_count = 0 /\ run[r].ret # "false")
                         => \E x \in run[r].pend \cup db :
                              KeyOf(x) = row_key(run[r].df[i]) /\ x.prompt = <<>>
      /\ pv[r].ret = "true" =>
           pv[r].new_count + pv[r].existing_count <= NComplete(r)
      /\ \A x \in db \cup run[r].pend :
           \E j \in DOMAIN RawOf(r) :
             /\ KeysPresent(RawOf(r)[j]) /\ row_strippable(RawOf(r)[j])
             /\ KeyOf(x) = row_key(RawOf(r)[j])

\* a previewed and completed run on a spreadsheet of a row without a field
\* (and without a prompt) and a complete row without a prompt: one record
\* counted, one row stored, with the empty prompt
C11_Witness ==
    \E r \in Runs :
      /\ Reported(r) /\ pv[r].ret = "true"
      /\ RawOf(r) = <<RowNoField, RowNoPrompt>>
      /\ pv[r].new_count = 1 /\ pv[r].existing_count = 0
      /\ run[r].new_count = 1 /\ Tally(r) = 1
      /\ \E x \in db : x.prompt = <<>> /\ KeyOf(x) = row_key(RowNoPrompt)

\* ------------------------------------------------------------------ C12
\* process r was refused its spreadsheet: whatever it called returned
\* failure, with no record normalized, no connection opened, no statement
\* sent and storage as it was
Rejected(r) ==
    /\ run[r].pc # "idle" =>
         /\ Done(r) /\ run[r].ret = "false"
         /\ run[r].df = <<>>
         /\ run[r].conns = <<>>
         /\ run[r].outcome = <<>> /\ run[r].pend = {} /\ run[r].txTime = 0
         /\ run[r].endDb = run[r].startDb
    /\ pv[r].ret # "none" =>
         /\ pv[r].ret = "false" /\ ~pv[r].fault
         /\ pv[r].new_count = 0 /\ pv[r].existing_count = 0

\* C12 as stated (input-format rejection): every spreadsheet whose column
\* set is not exactly {Area, Sub Area, Field, Prompt} is refused by
\* ingest_excel_data and by preview_ingestion before normalization, with no
\* connection opened and no row changed.
C12_ExactColumns ==
    \A r \in Runs : files[r].cols # expected_columns => Rejected(r)

\* C12 (amended): every spreadsheet that lacks one of the columns Area,
\* Sub Area, Field, Prompt is refused by ingest_excel_data and by
\* preview_ingestion before normalization, with no connection opened and no
\* row changed; columns beyond the four do not make a spreadsheet refused.
C12_MissingColumns ==
    \A r \in Runs :
      ~(expected_columns \subseteq files[r].cols) => Rejected(r)

\* a spreadsheet without its Prompt column, refused by the preview and then
\* by the run
C12_Witness ==
    \E r \in Runs :
      /\ "Prompt" \notin files[r].cols
      /\ files[r].rows # <<>>
      /\ pv[r].ret = "false"
      /\ Done(r) /\ run[r].ret = "false" /\ run[r].conns = <<>>
      /\ db = {}

\* ------------------------------------------------------------------ C13
\* every fault so far was a storage error raised by a statement of a record
\* (none hit a connect, a commit or a preview)
OnlyRecordFaults ==
    /\ \A r \in Runs : OnlyStorageErrors(r)
    /\ faults = Cardinality(Failed(1)) + Cardinality(Failed(2))

\* the run of process r got its connection
Connected(r) == run[r].conns # <<>>

\* C13 (per-record state machine): when storage errors (errors of the
\* connection included) hit records only, a run that has returned attempted
\* every normalized record once, each ended as inserted, skipped_existing or
\* failed, and the run reached its summary.
C13_RunNeverStopped ==
    OnlyRecordFaults =>
      \A r \in Runs :
        (Done(r) /\ Connected(r))
        => /\ Len(run[r].outcome) = Len(run[r].df)
           /\ \A i \in DOMAIN run[r].outcome :
                run[r].outcome[i].kind \in {"new", "skipped", "failed"}
           /\ Tally(r) = Len(run[r].df)
           /\ Reported(r)

\* ------------------------------------------------------------------ C14
\* the last update_prompt call returned ret
Returned(ret) == updates' # <<>> /\ updates'[Len(updates')].ret = ret

C15_KeysNonEmpty ==
    \A r \in Runs : \A x \in db \cup run[r].pend :
      x.area # <<>> /\ x.sub_area # <<>> /\ x.field # <<>>

\* ------------------------------------------------------------------ C16
\* main() has sent a statement that reads or writes field_prompts
DataOperation ==
    \/ mn.stats_ret # "none" \/ mn.seen # {}
    \/ pv[1].ret # "none"
    \/ run[1].pc # "idle"

\* C16 (schema failure aborts first): once create_schema has failed, at its
\* connect, at any of its statements or at its commit, the committed schema
\* is what it was before the call, the error has left main, and main has
\* read no stats, previewed nothing and ingested nothing; main sends a data
\* statement only after create_schema returned, with the table and its
\* indexes committed.
C16_SchemaFailureAborts ==
    /\ mn.schema_ret = "raised" =>
         /\ mn.pc = "raised"
         /\ schema = mn.schema0 /\ mn.ddl = {}
         /\ ~DataOperation
         /\ run[1] = InitRun /\ pv[1] = InitPv
    /\ DataOperation =>
         mn.schema_ret = "ok" /\ Objects(Len(DDL)) \subseteq schema

\* create_schema failed at its second CREATE INDEX on a storage with no
\* schema, after the table and one index had been created in its transaction
C16_Witness ==
    /\ mn.schema_ret = "raised" /\ mn.pc = "raised"
    /\ mn.step = 3
    /\ mn.schema0 = {} /\ schema = {}
    /\ faults = 1

\* ------------------------------------------------------------------ C17
\* the run of process r has sent an INSERT
SentInsert(r) ==
    \E i \in DOMAIN run[r].outcome : run[r].outcome[i].kind # "failed"

\* C17 (operator gate): with storage answering every statement, main sends
\* an INSERT only after preview_ingestion returned its counts and the
\* operator answered 'y'.
C17_OperatorGate ==
    (faults = 0 /\ SentInsert(1))
    => mn.preview_success = "true" /\ mn.proceed = "y"

\* ------------------------------------------------------------------ C18
\* C18 (stats snapshot consistency): with storage answering every
\* statement, the four values a get_database_stats call returned are the aggregates of one set of committed rows that the
\* table held during the call, hence unique_areas, unique_sub_areas and
\* recent_updates are at most total_records.
C18_StatsSnapshot ==
    (faults = 0 /\ mn.stats_ret = "dict") =>
      /\ \E rows \in mn.seen : \E t \in 0..now : mn.stats = StatsOf(rows, t)
      /\ mn.stats.unique_areas <= mn.stats.total_records
      /\ mn.stats.unique_sub_areas <= mn.stats.total_records
      /\ mn.stats.recent_updates <= mn.stats.total_records

\* ------------------------------------------------------------------ C19
\* nothing went wrong but what the two runs did to each other
OnlyEachOther ==
    /\ faults = 0
    /\ \A r \in Runs : \A i \in Failed(r) : run[r].outcome[i].cause = "deadlock"

\* a step of some run that needs no storage fault to happen
RunStep ==
    \E r \in Runs :
      \/ IngestStart(r)
      \/ IngestSelect(r)
      \/ IngestAttrError(r)
      \/ IngestInsert(r)
      \/ IngestDeadlock(r)
      \/ IngestCommit(r)

\* C19 (concurrent-run convergence): when nothing goes wrong but lock waits
\* and deadlock aborts between the two runs, some run can always take a step
\* until both have returned, and once both have returned every key of either
\* batch is in storage.
C19_Convergence ==
    OnlyEachOther =>
      /\ (\A r \in Runs : Done(r)) \/ ENABLED RunStep
      /\ (\A r \in Runs : Done(r)) => \A r \in Runs : DfKeys(r) \subseteq Keys(db)

====
